---- MODULE Spec2Model ----
(***************************************************************************)
(* A model of gctree.py: the branching-process likelihood                  *)
(* LeavesAndClades.f with its class-level memo table f_hash, the           *)
(* collapse of zero-length edges in CollapsedTree.__init__, and the tree   *)
(* and forest log-likelihoods CollapsedTree.l and CollapsedForest.l.       *)
(*                                                                         *)
(* Numbers.  The program computes in IEEE doubles.  The model computes in  *)
(* exact rationals <<n, d>> (d > 0, lowest terms), extended with the IEEE  *)
(* special values "inf", "ninf", "nan" where the program divides by zero   *)
(* or takes log 0.  Rounding is therefore outside the model.               *)
(***************************************************************************)
EXTENDS Integers, Sequences, FiniteSets, TLC

VARIABLES
    f_hash,     \* LeavesAndClades.f_hash: (p, q, c, m) -> (f, (dfdp, dfdq))
    ret,        \* what the last operation returned (or raised)
    last,       \* the last operation and its arguments
    calls,      \* the (c, m) -> (c', m') recursive calls f made in the last operation
    writes,     \* number of assignments to f_hash made in the last operation
    ncalls,     \* number of operations so far
    obj         \* the object the operations act on (a node, a tree, a forest)

vars == <<f_hash, ret, last, calls, writes, ncalls, obj>>

-----------------------------------------------------------------------------
(* Bounds of the model *)

\* largest c + m of an instance f is called on directly
MaxCM == 3
\* number of top-level operations in one behaviour
MaxCalls == 2
\* largest number of nodes of a tree given to CollapsedTree
MaxNodes == 3
\* largest total frequency plus number of edges of a tree whose likelihood
\* is computed
MaxMass == 4
\* largest number of trees of a forest
MaxTrees == 2

-----------------------------------------------------------------------------
(* Exact rational arithmetic: <<n, d>> with d > 0 and gcd(|n|, d) = 1 *)

Abs(x) == IF x < 0 THEN -x ELSE x

RECURSIVE GCD(_, _)
GCD(a, b) == IF b = 0 THEN a ELSE GCD(b, a % b)

Rat(n, d) == LET g == GCD(Abs(n), d) IN <<n \div g, d \div g>>

RInt(k) == <<k, 1>>

RNeg(x) == <<-x[1], x[2]>>

RAdd(x, y) ==
    LET g == GCD(x[2], y[2])
        l == (x[2] \div g) * y[2]
    IN Rat(x[1] * (l \div x[2]) + y[1] * (l \div y[2]), l)

RSub(x, y) == RAdd(x, RNeg(y))

RMul(x, y) ==
    LET g1 == GCD(Abs(x[1]), y[2])
        g2 == GCD(Abs(y[1]), x[2])
    IN <<(x[1] \div g1) * (y[1] \div g2), (x[2] \div g2) * (y[2] \div g1)>>

RMul3(x, y, z) == RMul(RMul(x, y), z)

RLeq(x, y) == x[1] * y[2] <= y[1] * x[2]

\* x / y for y # 0
RDiv(x, y) ==
    LET g1 == GCD(Abs(x[1]), Abs(y[1]))
        g2 == GCD(x[2], y[2])
        n == (x[1] \div g1) * (y[2] \div g2)
        d == (x[2] \div g2) * (y[1] \div g1)
    IN IF d < 0 THEN <<-n, -d>> ELSE <<n, d>>

RZero == RInt(0)
ROne == RInt(1)

-----------------------------------------------------------------------------
(* The (p, q) arguments the operations are called with: points of the unit *)
(* square, its corners and edges included.                                 *)

Points ==
    { <<Rat(3, 10), Rat(1, 2)>>, <<RZero, ROne>>, <<ROne, RZero>> }

-----------------------------------------------------------------------------
(* LeavesAndClades.f *)

\* the memo key (p, q, c, m)
Key(p, q, c, m) == <<p, q, c, m>>

\* the stored tuple (f_result, array([dfdp_result, dfdq_result]))
Res(fr, dfdp, dfdq) == <<fr, <<dfdp, dfdq>>>>

\* S is the evaluation state of a call: the table, the recursive calls
\* and the table writes made so far
EvalState(tab) == [tab |-> tab, calls |-> {}, writes |-> 0]

SamePoint(k1, k2) == k1[1] = k2[1] /\ k1[2] = k2[2]

StoreEvict(S, k, v) ==
    [S EXCEPT !.tab = (k :> v) @@ [j \in {i \in DOMAIN S.tab : SamePoint(i, k)} |-> S.tab[j]],
              !.writes = @ + 1]

\* LeavesAndClades.f_hash[(p, q, c, m)] = (f_result, array([...]))
Store(S, k, v) == [S EXCEPT !.tab = (k :> v) @@ S.tab, !.writes = @ + 1]

\* a recursive call neighbor.f(p, q) made by the instance (c, m)
Called(S, c, m, c2, m2) == [S EXCEPT !.calls = @ \cup {<<<<c, m>>, <<c2, m2>>>>}]

\* for cx in range(c+1): for mx in range(m+1): the i-th (cx, mx) in loop order
SplitCx(i, m) == i \div (m + 1)
SplitMx(i, m) == i % (m + 1)

\* if (not (cx==0 and mx==0)) and (not (cx==c and mx==m))
SplitTaken(cx, mx, c, m) == ~(cx = 0 /\ mx = 0) /\ ~(cx = c /\ mx = m)

SplitCountShort(c, m) == c * (m + 1)

\* number of iterations of the double loop
SplitCount(c, m) == (c + 1) * (m + 1)

PeelTermSlip(p, q, nb) ==
    LET q_one == RSub(q, ROne)
        two == RInt(2)
        w == RMul(RMul3(two, p, q), q_one)
    IN [f |-> RMul(w, nb[1]),
        dfdp |-> RAdd(RMul(RMul3(two, q, q_one), nb[1]), RMul(w, nb[2][1])),
        dfdq |-> RAdd(RMul(RSub(RMul(two, p), RMul3(RInt(4), p, q)), nb[1]),
                      RMul(w, nb[2][2]))]

\* the m >= 1 branch: f, dfdp, dfdq from neighbor = (c, m-1)
PeelTerm(p, q, nb) ==
    LET one_q == RSub(ROne, q)
        two == RInt(2)
        w == RMul(RMul3(two, p, q), one_q)            \* 2*p*q*(1-q)
    IN [f |-> RMul(w, nb[1]),
        dfdp |-> RAdd(RMul(RMul3(two, q, one_q), nb[1]), RMul(w, nb[2][1])),
        dfdq |-> RAdd(RMul(RSub(RMul(two, p), RMul3(RInt(4), p, q)), nb[1]),
                      RMul(w, nb[2][2]))]

SplitTermSlip(p, q, n1, n2) ==
    LET one_q == RSub(ROne, q)
        w == RMul(p, one_q)
    IN [f |-> RMul3(w, n1[1], n2[1]),
        dfdp |-> RAdd(RMul3(one_q, n1[1], n2[1]),
                 RAdd(RMul3(w, n1[2][1], n2[1]), RMul3(w, n1[1], n2[2][1]))),
        dfdq |-> RAdd(RMul(RMul(RInt(-1), p), RMul(n1[1], n2[1])),
                 RAdd(RMul3(w, n1[2][2], n2[1]), RMul3(w, n1[1], n2[2][2])))]

\* one accumulation of the double loop, from neighbor1 and neighbor2
SplitTerm(p, q, n1, n2) ==
    LET one_q == RSub(ROne, q)
        w == RMul3(p, one_q, one_q)                    \* p*(1-q)**2
    IN [f |-> RMul3(w, n1[1], n2[1]),
        dfdp |-> RAdd(RMul3(RMul(one_q, one_q), n1[1], n2[1]),
                 RAdd(RMul3(w, n1[2][1], n2[1]), RMul3(w, n1[1], n2[2][1]))),
        dfdq |-> RAdd(RMul(RMul3(RInt(-2), p, one_q), RMul(n1[1], n2[1])),
                 RAdd(RMul3(w, n1[2][2], n2[1]), RMul3(w, n1[1], n2[2][2])))]

\* c==m==0 or (c==0 and m==1), c==1 and m==0, c==0 and m==2
BaseCase(c, m) ==
    (c = 0 /\ m = 0) \/ (c = 0 /\ m = 1) \/ (c = 1 /\ m = 0) \/ (c = 0 /\ m = 2)

BaseResSlip(p, q, c, m) ==
    IF c = 1 /\ m = 0 THEN Res(RSub(ROne, p), RInt(-1), RZero)
    ELSE IF c = 0 /\ m = 2 THEN Res(RMul3(p, q, RInt(2)), RMul(q, q), RMul3(RInt(2), p, q))
    ELSE Res(RZero, RZero, RZero)

\* the value f stores in a base case
BaseRes(p, q, c, m) ==
    IF (c = 0 /\ m = 0) \/ (c = 0 /\ m = 1) THEN Res(RZero, RZero, RZero)
    ELSE IF c = 1 /\ m = 0 THEN Res(RSub(ROne, p), RInt(-1), RZero)
    ELSE Res(RMul3(p, q, q), RMul(q, q), RMul3(RInt(2), p, q))

AccAdd(a, t) ==
    [f |-> RAdd(a.f, t.f), dfdp |-> RAdd(a.dfdp, t.dfdp), dfdq |-> RAdd(a.dfdq, t.dfdq)]

AccZero == [f |-> RZero, dfdp |-> RZero, dfdq |-> RZero]

RECURSIVE F(_, _, _, _, _)
RECURSIVE SplitLoop(_, _, _, _, _)

\* the double loop of f; L = [S, acc, i] is the evaluation state, the sums
\* so far and the iteration reached; returns L at the end of the loop
SplitLoop(L, p, q, c, m) ==
    IF L.i >= SplitCount(c, m) THEN L
    ELSE LET cx == SplitCx(L.i, m)
             mx == SplitMx(L.i, m)
         IN IF ~SplitTaken(cx, mx, c, m)
            THEN SplitLoop([L EXCEPT !.i = @ + 1], p, q, c, m)
            ELSE LET S1 == F(Called(L.S, c, m, cx, mx), p, q, cx, mx)
                     S2 == F(Called(S1, c, m, c - cx, m - mx), p, q, c - cx, m - mx)
                     t == SplitTerm(p, q, S2.tab[Key(p, q, cx, mx)],
                                          S2.tab[Key(p, q, c - cx, m - mx)])
                 IN SplitLoop([S |-> S2, acc |-> AccAdd(L.acc, t), i |-> L.i + 1],
                              p, q, c, m)

\* f(self, p, q) for self._c = c, self._m = m (c, m >= 0): the evaluation
\* state after the call; the value returned is S.tab[Key(p, q, c, m)]
F(S, p, q, c, m) ==
    LET k == Key(p, q, c, m) IN
    IF k \in DOMAIN S.tab THEN S
    ELSE IF BaseCase(c, m) THEN Store(S, k, BaseRes(p, q, c, m))
    ELSE LET S1 == IF m >= 1 THEN F(Called(S, c, m, c, m - 1), p, q, c, m - 1) ELSE S
             a0 == IF m >= 1 THEN PeelTerm(p, q, S1.tab[Key(p, q, c, m - 1)]) ELSE AccZero
             L == SplitLoop([S |-> S1, acc |-> a0, i |-> 0], p, q, c, m)
         IN Store(L.S, k, Res(L.acc.f, L.acc.dfdp, L.acc.dfdq))

-----------------------------------------------------------------------------
(* The memo table under calls of f on instances with any (c, m) *)

NoTable == << >>

\* what an operation returns: a value, or the exception it raises, and the
\* warnings it gave on the way
Returned(v) == [err |-> "none", val |-> v, warn |-> {}]
Raised(e) == [err |-> e, val |-> << >>, warn |-> {}]
Warned(r, w) == [r EXCEPT !.warn = @ \cup {w}]
NoReturn == Returned(<< >>)

NoObject == [kind |-> "none"]

CMs == {cm \in (0..MaxCM) \X (0..MaxCM) : cm[1] + cm[2] <= MaxCM}

InitF ==
    /\ f_hash = NoTable
    /\ ret = NoReturn
    /\ last = [op |-> "init"]
    /\ calls = {}
    /\ writes = 0
    /\ ncalls = 0
    /\ obj = NoObject

\* LeavesAndClades(c=c, m=m).f(p, q)
CallF(p, q, c, m) ==
    /\ ncalls < MaxCalls
    /\ \E S \in {F(EvalState(f_hash), p, q, c, m)} :
          /\ f_hash' = S.tab
          /\ calls' = S.calls
          /\ writes' = S.writes
          /\ ret' = Returned(S.tab[Key(p, q, c, m)])
    /\ last' = [op |-> "f", key |-> Key(p, q, c, m),
                hit |-> Key(p, q, c, m) \in DOMAIN f_hash]
    /\ ncalls' = ncalls + 1
    /\ obj' = [kind |-> "node", c |-> <<c>>, m |-> <<m>>]

NextF == \E pt \in Points, cm \in CMs : CallF(pt[1], pt[2], cm[1], cm[2])

SpecF == InitF /\ [][NextF]_vars

-----------------------------------------------------------------------------
(* Claims about f, checked under SpecF *)

\* the rational x equals a/b
REq(x, a, b) == x[1] * b = a * x[2]

PointA == <<Rat(3, 10), Rat(1, 2)>>

BaseValueOK(k, v) ==
    LET pn == k[1][1]
        pd == k[1][2]
        qn == k[2][1]
        qd == k[2][2]
        c == k[3]
        m == k[4]
    IN /\ (c = 0 /\ m \in {0, 1}) =>
            v = <<(<<0, 1>>), <<(<<0, 1>>), (<<0, 1>>)>> >>
       /\ (c = 1 /\ m = 0) =>
            /\ REq(v[1], pd - pn, pd)
            /\ v[2] = <<(<<-1, 1>>), (<<0, 1>>)>>
       /\ (c = 0 /\ m = 2) =>
            /\ REq(v[1], pn * qn * qn, pd * qd * qd)
            /\ REq(v[2][1], qn * qn, qd * qd)
            /\ REq(v[2][2], 2 * pn * qn, pd * qd)
       /\ k = Key(PointA[1], PointA[2], 1, 0) => v[1] = <<7, 10>>
       /\ k = Key(PointA[1], PointA[2], 0, 2) => v[1] = <<3, 40>>

\* C1: in the base cases f returns (and stores) probability 0 with gradient
\* (0,0) for (0,0) and (0,1), 1-p with gradient (-1,0) for (1,0), and p*q^2
\* with gradient (q^2, 2pq) for (0,2); at p = 0.3, q = 0.5 these are 0.7
\* and 0.075.
C1_BaseCases ==
    /\ \A k \in DOMAIN f_hash : BaseValueOK(k, f_hash[k])
    /\ last.op = "f" => BaseValueOK(last.key, ret.val)

C1_Witness ==
    /\ last.op = "f"
    /\ last.key = Key(PointA[1], PointA[2], 0, 2)
    /\ ret.val[1] = <<3, 40>>
    /\ Key(PointA[1], PointA[2], 1, 0) \in DOMAIN f_hash
    /\ f_hash[Key(PointA[1], PointA[2], 1, 0)][1] = <<7, 10>>

Splits(c, m) == {s \in (0..c) \X (0..m) : s # <<0, 0>> /\ s # <<c, m>>}

\* the sum of the values x[2] of a set of tagged rationals <<tag, value>>
RECURSIVE RSumOver(_)
RSumOver(S) ==
    IF S = {} THEN RZero
    ELSE LET x == CHOOSE y \in S : TRUE
         IN RAdd(x[2], RSumOver(S \ {x}))

\* the keys the recursion of key k reads
SubKeys(k) ==
    LET c == k[3]
        m == k[4]
    IN {Key(k[1], k[2], s[1], s[2]) : s \in Splits(c, m)}
       \cup (IF m >= 1 THEN {Key(k[1], k[2], c, m - 1)} ELSE {})

\* the reference recursion for key k, over the probabilities in the table
RefF(k) ==
    LET p == k[1]
        q == k[2]
        c == k[3]
        m == k[4]
        one_q == RSub(ROne, q)
        val(cc, mm) == f_hash[Key(p, q, cc, mm)][1]
        peel == IF m >= 1
                THEN RMul(RMul(RMul3(RInt(2), p, q), one_q), val(c, m - 1))
                ELSE RZero
        term(s) == RMul(RMul3(p, one_q, one_q),
                        RMul(val(s[1], s[2]), val(c - s[1], m - s[2])))
    IN RAdd(peel, RSumOver({<<s, term(s)>> : s \in Splits(c, m)}))

\* C2: outside the base cases the probability f returns equals the reference
\* recursion, 2pq(1-q) f(c,m-1) (if m >= 1) plus the sum over the ordered
\* splits, (0,0) and (c,m) excluded, of p(1-q)^2 f(cx,mx) f(c-cx,m-mx); and
\* every recursive call is on nonnegative (c',m') with strictly smaller c'+m'.
C2_Recursion ==
    /\ \A k \in DOMAIN f_hash :
          ~BaseCase(k[3], k[4]) =>
             /\ SubKeys(k) \subseteq DOMAIN f_hash
             /\ f_hash[k][1] = RefF(k)
    /\ last.op = "f" => ret.val = f_hash[last.key]
    /\ \A e \in calls :
          /\ e[2][1] >= 0 /\ e[2][2] >= 0
          /\ e[2][1] + e[2][2] < e[1][1] + e[1][2]

C2_Witness ==
    /\ last.op = "f"
    /\ last.key = Key(PointA[1], PointA[2], 1, 2)
    /\ ~last.hit
    /\ ret.val[1] = <<189, 8000>>
    /\ <<(<<1, 2>>), (<<1, 0>>)>> \in calls

\* C3: for c, m >= 0 with c + m > 0 the probability f returns lies in [0,1].
C3_UnitInterval ==
    /\ \A k \in DOMAIN f_hash :
          (k[3] >= 0 /\ k[4] >= 0 /\ k[3] + k[4] > 0) =>
             (0 <= f_hash[k][1][1] /\ f_hash[k][1][1] <= f_hash[k][1][2])
    /\ (last.op = "f" /\ last.key[3] + last.key[4] > 0) =>
          (0 <= ret.val[1][1] /\ ret.val[1][1] <= ret.val[1][2])

C3_Witness ==
    /\ last.op = "f"
    /\ last.key[3] >= 1 /\ last.key[4] >= 2
    /\ 0 < ret.val[1][1] /\ ret.val[1][1] < ret.val[1][2]

\* C4: an entry of f_hash, once written, is never overwritten or removed; a
\* call whose key is in the table writes nothing and returns the entry; every
\* call returns the entry of its key (so the same as the first call with it).
C4_Memo ==
    [][ /\ \A k \in DOMAIN f_hash :
             k \in DOMAIN f_hash' /\ f_hash'[k] = f_hash[k]
        /\ last'.op = "f" =>
             /\ ret'.val = f_hash'[last'.key]
             /\ last'.key \in DOMAIN f_hash =>
                   (writes' = 0 /\ f_hash' = f_hash /\ ret'.val = f_hash[last'.key])
      ]_vars

C4_Witness ==
    /\ last.op = "f"
    /\ last.hit
    /\ writes = 0
    /\ ret.val = f_hash[last.key]
    /\ \E k \in DOMAIN f_hash : k[3] + k[4] > last.key[3] + last.key[4]

-----------------------------------------------------------------------------
(* LeavesAndClades.__init__ *)

\* an optional argument or attribute: None, or Some(x) holding x
None == << >>
Some(x) == <<x>>
Get(o) == o[1]

\* 0 <= x <= 1
InUnit(x) == RLeq(RZero, x) /\ RLeq(x, ROne)

\* if p is not None or q is not None: if not (0 <= p <= 1 and 0 <= q <= 1): raise
\* (p and q are both given or both None here)
PQRaises(p, q) ==
    (p # None \/ q # None) /\ ~(InUnit(Get(p)) /\ InUnit(Get(q)))

\* if c is not None or m is not None:
\*     if not (c >= 0) and (m >= 0) and (c+m > 0): raise
\* which Python reads as (not (c >= 0)) and (m >= 0) and (c+m > 0)
\* (c and m are both given or both None here)
CMRaises(c, m) ==
    (c # None \/ m # None)
        /\ (~(Get(c) >= 0) /\ (Get(m) >= 0) /\ (Get(c) + Get(m) > 0))

\* the instance __init__ leaves (_c and _m are assigned only when c or m is
\* given), or the exception it raises
LeavesAndCladesInit(p, q, c, m) ==
    IF PQRaises(p, q) \/ CMRaises(c, m) THEN Raised("ValueError")
    ELSE Returned([kind |-> "node", p |-> p, q |-> q, c |-> c, m |-> m])

PQArgs ==
    {<<None, None>>}
        \cup {<<Some(pt[1]), Some(pt[2])>> : pt \in Points}
        \cup {<<Some(Rat(3, 2)), Some(Rat(1, 2))>>, <<Some(Rat(1, 2)), Some(Rat(-1, 2))>>}

CMArgs == {<<None, None>>} \cup {<<Some(c), Some(m)>> : c \in -2 .. MaxCM, m \in -2 .. MaxCM}

InitNode ==
    /\ f_hash = NoTable
    /\ ret = NoReturn
    /\ last = [op |-> "init"]
    /\ calls = {}
    /\ writes = 0
    /\ ncalls = 0
    /\ obj = NoObject

\* LeavesAndClades(p=p, q=q, c=c, m=m)
NewNode(p, q, c, m) ==
    /\ \E r \in {LeavesAndCladesInit(p, q, c, m)} :
          /\ ret' = [r EXCEPT !.val = << >>]
          /\ obj' = IF r.err = "none" THEN r.val ELSE NoObject
    /\ last' = [op |-> "new", p |-> p, q |-> q, c |-> c, m |-> m]
    /\ UNCHANGED <<f_hash, calls, writes, ncalls>>

NextNode == \E pq \in PQArgs, cm \in CMArgs : NewNode(pq[1], pq[2], cm[1], cm[2])

SpecNode == InitNode /\ [][NextNode]_vars

\* C7: constructing a node with c, m given fails with ValueError whenever
\* c < 0, or m < 0, or c + m = 0.
C7_RejectsInvalid ==
    (/\ last.op = "new"
     /\ last.c # None
     /\ (Get(last.c) < 0 \/ Get(last.m) < 0 \/ Get(last.c) + Get(last.m) = 0))
    => ret.err = "ValueError"

-----------------------------------------------------------------------------
(* Trees (ete3 TreeNode): nodes 1..n, node 1 the root; per node its parent *)
(* up (0 for None), its ordered children, its branch length dist, its      *)
(* frequency feature and its sequence feature; sequence is << >> for a     *)
(* tree whose nodes have no such feature.                                   *)

Root == 1

NoParent == 0

\* the elements of a set of integers in increasing order
RECURSIVE SortedSeq(_)
SortedSeq(S) ==
    IF S = {} THEN << >>
    ELSE LET x == CHOOSE y \in S : \A z \in S : y <= z
         IN <<x>> \o SortedSeq(S \ {x})

\* the tree with parents upf (over 2..n), branch lengths distf (over 2..n),
\* frequencies freqf and sequences seqf (over 1..n); children in increasing
\* order
TreeOf(n, upf, distf, freqf, seqf) ==
    [n |-> n,
     up |-> [i \in 1..n |-> IF i = Root THEN NoParent ELSE upf[i]],
     children |-> [i \in 1..n |-> SortedSeq({j \in 2..n : upf[j] = i})],
     dist |-> [i \in 1..n |-> IF i = Root THEN 0 ELSE distf[i]],
     frequency |-> freqf,
     sequence |-> seqf]

Shapes(n) == {u \in [2..n -> 1..n] : \A i \in 2..n : u[i] < i}

\* branch lengths: zero or not is all the program tests
Dists == {0, 1}

NoSequences == << >>

\* sequences: pairwise distinct, all the same, or the feature missing
Sequences(n) == {[i \in 1..n |-> i], [i \in 1..n |-> 1], NoSequences}

\* the trees of n nodes with frequencies in freqs
TreesOfSize(n, freqs) ==
    {TreeOf(n, u, d, fr, sq) :
        u \in Shapes(n), d \in [2..n -> Dists], fr \in [1..n -> freqs], sq \in Sequences(n)}

\* the frequencies of the nodes of the trees given to CollapsedTree
Freqs == 0..2

InputTrees == UNION {TreesOfSize(n, Freqs) : n \in 1..MaxNodes}

\* TreeNode.traverse(): level order, the ete3 default
RECURSIVE LevelOrder(_, _, _)
LevelOrder(t, tovisit, out) ==
    IF tovisit = << >> THEN out
    ELSE LevelOrder(t, Tail(tovisit) \o t.children[Head(tovisit)],
                    Append(out, Head(tovisit)))

Traverse(t) == LevelOrder(t, <<Root>>, << >>)

\* TreeNode.get_descendants(): the list of the nodes below the root
GetDescendants(t) == Tail(Traverse(t))

\* TreeNode.add_child(child): children.append(child); child.up = self
AddChild(t, parent, ch) ==
    [t EXCEPT !.children[parent] = Append(@, ch), !.up[ch] = parent]

\* TreeNode.remove_child(child): children.remove(child); child.up = None
RemoveChild(t, parent, ch) ==
    [t EXCEPT !.children[parent] = SelectSeq(@, LAMBDA x : x # ch),
              !.up[ch] = NoParent]

RECURSIVE AddChildren(_, _, _, _)
\* for ch in self.children: parent.add_child(ch)
AddChildren(t, parent, chs, i) ==
    IF i > Len(chs) THEN t
    ELSE AddChildren(AddChild(t, parent, chs[i]), parent, chs, i + 1)

DeleteDropping(t, node) ==
    IF t.up[node] = NoParent THEN t ELSE RemoveChild(t, t.up[node], node)

\* TreeNode.delete(prevent_nondicotomic=False): the node's children are
\* appended to its parent's, the node is removed from its parent; the node
\* keeps its own (now stale) children list
Delete(t, node) ==
    LET parent == t.up[node]
    IN IF parent = NoParent THEN t
       ELSE RemoveChild(AddChildren(t, parent, t.children[node], 1), parent, node)

AbsorbAssign(t, node) ==
    [t EXCEPT !.frequency[t.up[node]] = t.frequency[node]]

\* node.up.frequency += node.frequency
Absorb(t, node) ==
    [t EXCEPT !.frequency[t.up[node]] = @ + t.frequency[node]]

RECURSIVE CollapseLoop(_, _, _)
\* for node in self._tree.get_descendants(): if node.dist == 0: ...
\* over the list taken before the loop
CollapseLoop(t, nodes, i) ==
    IF i > Len(nodes) THEN t
    ELSE IF t.dist[nodes[i]] = 0
         THEN CollapseLoop(Delete(Absorb(t, nodes[i]), nodes[i]), nodes, i + 1)
         ELSE CollapseLoop(t, nodes, i + 1)

\* 0 in (node.dist for node in tree.iter_descendants())
AnyZeroDist(t) == \E i \in 1..Len(GetDescendants(t)) : t.dist[GetDescendants(t)[i]] = 0

\* the collapse of __init__ on the copy of tree
Collapse(t) == IF AnyZeroDist(t) THEN CollapseLoop(t, GetDescendants(t), 1) ELSE t

RECURSIVE SumFreq(_, _, _)
SumFreq(t, nodes, i) ==
    IF i > Len(nodes) THEN 0 ELSE t.frequency[nodes[i]] + SumFreq(t, nodes, i + 1)

\* sum(node.frequency for node in tree.traverse())
TotalFrequency(t) == SumFreq(t, Traverse(t), 1)

\* len(set([node.sequence for node in self._tree.traverse()]))
\*     != sum(1 for _ in self._tree.traverse())
RepeatedSequences(t) ==
    Cardinality({t.sequence[Traverse(t)[i]] : i \in 1..Len(Traverse(t))}) # Len(Traverse(t))

\* the object __init__ leaves
CollapsedTreeObject(p, q, tree) == [kind |-> "tree", p |-> p, q |-> q, tree |-> tree]

\* r, with the warning w if cond
WarnedIf(r, cond, w) == IF cond THEN Warned(r, w) ELSE r

\* the assertion and the check of the sequences, collapsed being self._tree
\* after the collapse of the copy of tree
CollapsedTreeChecks(p, q, tree, collapsed) ==
    IF TotalFrequency(tree) # TotalFrequency(collapsed) THEN Raised("AssertionError")
    ELSE IF collapsed.sequence = NoSequences THEN Raised("AttributeError")
    ELSE WarnedIf(Returned(CollapsedTreeObject(p, q, Some(collapsed))),
                  RepeatedSequences(collapsed), "repeated sequences")

\* CollapsedTree.__init__(p, q, tree), tree being None or Some(t): the
\* object, or the exception raised
CollapsedTreeInit(p, q, tree) ==
    IF PQRaises(p, q) THEN Raised("ValueError")
    ELSE IF tree = None THEN Returned(CollapsedTreeObject(p, q, None))
    ELSE CollapsedTreeChecks(p, q, Get(tree), Collapse(Get(tree)))

InitCollapse ==
    /\ f_hash = NoTable
    /\ ret = NoReturn
    /\ last = [op |-> "init"]
    /\ calls = {}
    /\ writes = 0
    /\ ncalls = 0
    /\ obj = NoObject

\* CollapsedTree(tree=tree)
NewCollapsedTree(tree) ==
    /\ \E r \in {CollapsedTreeInit(None, None, Some(tree))} :
          /\ ret' = [r EXCEPT !.val = << >>]
          /\ obj' = IF r.err = "none" THEN r.val ELSE NoObject
    /\ last' = [op |-> "CollapsedTree", tree |-> tree]
    /\ UNCHANGED <<f_hash, calls, writes, ncalls>>

\* one construction in a behaviour
NextCollapse == last.op = "init" /\ \E tree \in InputTrees : NewCollapsedTree(tree)

SpecCollapse == InitCollapse /\ [][NextCollapse]_vars

-----------------------------------------------------------------------------
(* Claims about the collapse, checked under SpecCollapse *)

\* the nodes reachable from the root
Nodes(t) == {Traverse(t)[i] : i \in 1..Len(Traverse(t))}

RECURSIVE SetSumFreq(_, _)
SetSumFreq(t, S) ==
    IF S = {} THEN 0
    ELSE LET x == CHOOSE y \in S : TRUE
         IN t.frequency[x] + SetSumFreq(t, S \ {x})

\* C5: the frequencies of the nodes of the collapsed tree sum to those of
\* the input tree (the constructor's assertion holds); a root of frequency
\* 2 with one zero-length child of frequency 1 collapses to a single node of
\* frequency 3 without children.
C5_Conservation ==
    (last.op = "CollapsedTree" /\ last.tree.sequence # NoSequences) =>
        /\ ret.err = "none"
        /\ obj.kind = "tree"
        /\ SetSumFreq(Get(obj.tree), Nodes(Get(obj.tree)))
             = SetSumFreq(last.tree, 1..last.tree.n)
        /\ (/\ last.tree.n = 2
            /\ last.tree.dist[2] = 0
            /\ last.tree.frequency = <<2, 1>>)
           => /\ Nodes(Get(obj.tree)) = {Root}
              /\ Get(obj.tree).frequency[Root] = 3
              /\ Get(obj.tree).children[Root] = << >>

C5_Witness ==
    /\ last.op = "CollapsedTree"
    /\ last.tree.n = 3
    /\ last.tree.up = <<0, 1, 2>>
    /\ last.tree.dist = <<0, 0, 0>>
    /\ last.tree.frequency = <<2, 1, 2>>
    /\ last.tree.sequence = <<1, 2, 3>>
    /\ obj.kind = "tree"
    /\ Get(obj.tree).frequency[Root] = 5
    /\ Nodes(Get(obj.tree)) = {Root}

\* the nearest ancestor-or-self of a that the collapse keeps
RECURSIVE Survivor(_, _)
Survivor(t, a) ==
    IF a = Root \/ t.dist[a] # 0 THEN a ELSE Survivor(t, t.up[a])

\* C6: after construction no node of the wrapped tree but the root has
\* dist = 0: the nodes kept are the root and the input's nodes of nonzero
\* dist, each with its dist unchanged and attached to its nearest kept
\* ancestor, zero-length nodes nested under zero-length nodes included.
C6_NoZeroEdges ==
    (last.op = "CollapsedTree" /\ obj.kind = "tree") =>
        LET tin == last.tree
            tout == Get(obj.tree)
        IN /\ \A v \in Nodes(tout) \ {Root} : tout.dist[v] # 0
           /\ Nodes(tout) = {Root} \cup {v \in 2..tin.n : tin.dist[v] # 0}
           /\ \A v \in Nodes(tout) \ {Root} :
                 /\ tout.dist[v] = tin.dist[v]
                 /\ tout.up[v] = Survivor(tin, tin.up[v])
                 /\ \E i \in 1..Len(tout.children[tout.up[v]]) :
                       tout.children[tout.up[v]][i] = v
           /\ \A v \in Nodes(tout) :
                 \A i \in 1..Len(tout.children[v]) : tout.up[tout.children[v][i]] = v

C6_Witness ==
    /\ last.op = "CollapsedTree"
    /\ last.tree.n = 3
    /\ last.tree.up = <<0, 1, 2>>
    /\ last.tree.dist = <<0, 0, 1>>
    /\ obj.kind = "tree"
    /\ Nodes(Get(obj.tree)) = {1, 3}
    /\ Get(obj.tree).up[3] = Root
    /\ Get(obj.tree).children[Root] = <<3>>

-----------------------------------------------------------------------------
(* Doubles as the likelihoods need them.  A finite value is "fin" with its *)
(* rational x, or "log": s * log(x) for a rational 0 < x and s in {1, -1}  *)
(* (s = 1 when x = 1, so that a value has one representation); the others  *)
(* are the IEEE infinities and NaN.                                        *)

Fin(x) == [k |-> "fin", s |-> 1, x |-> x]
PInf == [k |-> "inf", s |-> 1, x |-> <<0, 1>>]
NInf == [k |-> "ninf", s |-> 1, x |-> <<0, 1>>]
NaN == [k |-> "nan", s |-> 1, x |-> <<0, 1>>]

\* sign * log(x) for x >= 0: log(0) is -inf
SignLog(sign, x) ==
    IF x[1] = 0 THEN (IF sign = 1 THEN NInf ELSE PInf)
    ELSE [k |-> "log", s |-> IF x = <<1, 1>> THEN 1 ELSE sign, x |-> x]

\* exp(v) of a value SignLog(1, x)
ExpOf(v) == IF v.k = "ninf" THEN <<0, 1>> ELSE v.x

\* a / b of two numbers, as array division does it: x/0 is +-inf, 0/0 is nan
EDiv(a, b) ==
    IF b[1] # 0 THEN Fin(RDiv(a, b))
    ELSE IF a[1] > 0 THEN PInf
    ELSE IF a[1] < 0 THEN NInf
    ELSE NaN

EAdd(x, y) ==
    IF x.k = "nan" \/ y.k = "nan" THEN NaN
    ELSE IF x.k = "fin" /\ y.k = "fin" THEN Fin(RAdd(x.x, y.x))
    ELSE IF x.k = "fin" THEN y
    ELSE IF y.k = "fin" THEN x
    ELSE IF x.k = y.k THEN x
    ELSE NaN

\* sign * x for sign in {1, -1}
ESign(sign, x) ==
    IF sign = 1 THEN x
    ELSE IF x.k = "fin" THEN Fin(RNeg(x.x))
    ELSE IF x.k = "inf" THEN NInf
    ELSE IF x.k = "ninf" THEN PInf
    ELSE x

\* w * x for a number w >= 0: 0 * inf is nan
EScale(w, x) ==
    IF x.k = "nan" THEN NaN
    ELSE IF x.k = "fin" THEN Fin(RMul(w, x.x))
    ELSE IF w[1] = 0 THEN NaN
    ELSE x

\* x / w for a number w >= 0
EOver(x, w) ==
    IF x.k = "nan" THEN NaN
    ELSE IF x.k = "fin" THEN EDiv(x.x, w)
    ELSE x

-----------------------------------------------------------------------------
(* CollapsedTree.l *)

\* sign not in (-1, 1)
SignRaises(sign) == sign \notin {-1, 1}

\* [LeavesAndClades(c=node.frequency, m=len(node.children))
\*      for node in self._tree.traverse()]: the constructors' results
LeavesAndCladesList(t) ==
    [i \in 1..Len(Traverse(t)) |->
        LeavesAndCladesInit(None, None, Some(t.frequency[Traverse(t)[i]]),
                                        Some(Len(t.children[Traverse(t)[i]])))]

UnifurcationSlip(c, m) == c = 0 /\ m <= 1

\* leaves_and_clades_list[0]._c == 0 and leaves_and_clades_list[0]._m == 1
Unifurcation(c, m) == c = 0 /\ m = 1

RECURSIVE FData(_, _, _, _, _)
\* [leaves_and_clades.f(p, q) for leaves_and_clades in leaves_and_clades_list]:
\* the table after the calls on list[i..]
FData(S, p, q, list, i) ==
    IF i > Len(list) THEN S
    ELSE FData(F(S, p, q, Get(list[i].c), Get(list[i].m)), p, q, list, i + 1)

RECURSIVE Product(_, _)
Product(fs, i) == IF i > Len(fs) THEN ROne ELSE RMul(fs[i], Product(fs, i + 1))

RECURSIVE QuotientSum(_, _, _)
\* (dfs/fs).sum()
QuotientSum(dfs, fs, i) ==
    IF i > Len(fs) THEN Fin(RZero)
    ELSE EAdd(EDiv(dfs[i], fs[i]), QuotientSum(dfs, fs, i + 1))

\* c = m = 0 or (c = 0 and m = 1): f_result and the gradient are the ints 0
IntResult(nd) == Get(nd.c) = 0 /\ Get(nd.m) <= 1

\* sign*scipy.log(fs).sum(),
\* sign*scipy.array([(dfdps/fs).sum(), (dfdqs/fs).sum()])
\* for the f data of list in tab; arrays of ints only divide as ints, where
\* x/0 is 0
LogLikelihood(tab, p, q, list, sign) ==
    LET data == [i \in 1..Len(list) |-> tab[Key(p, q, Get(list[i].c), Get(list[i].m))]]
        fs == [i \in 1..Len(list) |-> data[i][1]]
        dfdps == [i \in 1..Len(list) |-> data[i][2][1]]
        dfdqs == [i \in 1..Len(list) |-> data[i][2][2]]
        ints == \A i \in 1..Len(list) : IntResult(list[i])
    IN [l |-> SignLog(sign, Product(fs, 1)),
        grad |-> IF ints THEN <<Fin(RZero), Fin(RZero)>>
                 ELSE <<ESign(sign, QuotientSum(dfdps, fs, 1)),
                        ESign(sign, QuotientSum(dfdqs, fs, 1))>>]

\* the return statement, S being the table after the calls of f on the
\* instances of list; warn: the root was left out
TreeLReturn(S, list, p, q, sign, warn) ==
    [S |-> S,
     r |-> WarnedIf(Returned(LogLikelihood(S.tab, p, q, list, sign)), warn, "unifurcation")]

\* f_data and the return, list being leaves_and_clades_list after the root
\* was left out or kept
TreeLData(S, list, p, q, sign, warn) ==
    TreeLReturn(FData(S, p, q, list, 1), list, p, q, sign, warn)

\* ... and leaves_and_clades_list[0].f(p, q)[0] == 0, S being the table
\* after that call of f (made if the root is a unifurcation)
TreeLRoot(S, list, p, q, sign, uni) ==
    IF uni /\ S.tab[Key(p, q, Get(list[1].c), Get(list[1].m))][1] = RZero
    THEN TreeLData(S, Tail(list), p, q, sign, TRUE)
    ELSE TreeLData(S, list, p, q, sign, FALSE)

\* l from the test of the root on, list being leaves_and_clades_list
TreeLList(S, list, p, q, sign, uni) ==
    TreeLRoot(IF uni THEN F(S, p, q, Get(list[1].c), Get(list[1].m)) ELSE S,
              list, p, q, sign, uni)

\* l from the constructors' results on: the first exception, or the rest
TreeLNodes(S, inits, p, q, sign) ==
    IF \E i \in 1..Len(inits) : inits[i].err # "none"
    THEN [S |-> S, r |-> Raised("ValueError")]
    ELSE TreeLList(S, [i \in 1..Len(inits) |-> inits[i].val], p, q, sign,
                   Unifurcation(Get(inits[1].val.c), Get(inits[1].val.m)))

\* CollapsedTree.l((p, q), sign) on the object o with the table of S: the
\* table it leaves and what it returns
TreeL(S, o, p, q, sign) ==
    IF o.tree = None THEN [S |-> S, r |-> Raised("ValueError")]
    ELSE IF SignRaises(sign) THEN [S |-> S, r |-> Raised("ValueError")]
    ELSE TreeLNodes(S, LeavesAndCladesList(Get(o.tree)), p, q, sign)

\* the (p, q) the likelihoods are evaluated at
LPoints == { <<Rat(1, 3), Rat(2, 3)>>, <<ROne, RZero>> }

Signs == {-1, 1}

Mass(t) == SetSumFreq(t, 1..t.n) + t.n - 1

\* the trees the likelihood is computed of
LTrees == {t \in InputTrees : Mass(t) <= MaxMass /\ t.sequence = [i \in 1..t.n |-> i]}

\* self.l((p, q), sign) on the CollapsedTree
CallTreeL(p, q, sign) ==
    /\ obj.kind = "tree"
    /\ \E R \in {TreeL(EvalState(f_hash), obj, p, q, sign)} :
          /\ f_hash' = R.S.tab
          /\ calls' = R.S.calls
          /\ writes' = R.S.writes
          /\ ret' = R.r
    /\ last' = [op |-> "l", p |-> p, q |-> q, sign |-> sign]
    /\ UNCHANGED <<ncalls, obj>>

NextTreeL ==
    \/ last.op = "init" /\ \E tree \in LTrees : NewCollapsedTree(tree)
    \/ \E pt \in LPoints, sign \in Signs : CallTreeL(pt[1], pt[2], sign)

SpecTreeL == InitCollapse /\ [][NextTreeL]_vars

-----------------------------------------------------------------------------
(* Claims about CollapsedTree.l, checked under SpecTreeL *)

\* (c, m) of node v of tree t: its frequency and its number of children
NodeCM(t, v) == <<t.frequency[v], Len(t.children[v])>>

\* the product of the values x[2] of a set of tagged rationals <<tag, value>>
RECURSIVE RProdOver(_)
RProdOver(S) ==
    IF S = {} THEN ROne
    ELSE LET x == CHOOSE y \in S : TRUE
         IN RMul(x[2], RProdOver(S \ {x}))

\* the nodes the claim sums over: all but a root with c = 0, m = 1
SummedNodes(t) ==
    Nodes(t) \ (IF NodeCM(t, Root) = <<0, 1>> THEN {Root} ELSE {})

\* the value v is sign * log(x) for the number x >= 0
IsSignLog(v, sign, x) ==
    IF x[1] = 0 THEN v.k = (IF sign = 1 THEN "ninf" ELSE "inf")
    ELSE v.k = "log" /\ v.x = x /\ (v.s = sign \/ x = ROne)

\* the entry of key k is the value of f: a base case, or the recursion
EntryIsF(k) ==
    /\ k \in DOMAIN f_hash
    /\ BaseValueOK(k, f_hash[k])
    /\ ~BaseCase(k[3], k[4]) =>
          (SubKeys(k) \subseteq DOMAIN f_hash /\ f_hash[k][1] = RefF(k))

ByHandTree(t) ==
    /\ NodeCM(t, Root) = <<2, 1>>
    /\ NodeCM(t, t.children[Root][1]) = <<1, 0>>

\* C9: for the tree whose root has frequency 2 and one child, a leaf of
\* frequency 1, exp(l((p,q))) is f(2,1) * f(1,0), which is
\* 6 p^2 (1-p)^3 q (1-q)^3.
C9_ByHand ==
    (last.op = "l" /\ ret.err = "none" /\ ByHandTree(Get(obj.tree))) =>
        LET pn == last.p[1]
            pd == last.p[2]
            qn == last.q[1]
            qd == last.q[2]
            f21 == f_hash[Key(last.p, last.q, 2, 1)][1]
            f10 == f_hash[Key(last.p, last.q, 1, 0)][1]
        IN /\ IsSignLog(ret.val.l, last.sign, RMul(f21, f10))
           /\ REq(RMul(f21, f10),
                  6 * pn * pn * (pd - pn) * (pd - pn) * (pd - pn)
                    * qn * (qd - qn) * (qd - qn) * (qd - qn),
                  pd * pd * pd * pd * pd * qd * qd * qd * qd)

C9_Witness ==
    /\ last.op = "l"
    /\ last.sign = 1
    /\ last.p = Rat(1, 3)
    /\ last.q = Rat(2, 3)
    /\ ByHandTree(Get(obj.tree))
    /\ ret.err = "none"
    /\ ret.val.l = [k |-> "log", s |-> 1, x |-> <<32, 6561>>]

-----------------------------------------------------------------------------
(* CollapsedForest *)

\* the object __init__ leaves: has_forest tells whether _forest was assigned
CollapsedForestObject(p, q, n_trees, has_forest, forest) ==
    [kind |-> "forest", p |-> p, q |-> q, tree |-> None, n_trees |-> n_trees,
     has_forest |-> has_forest, forest |-> forest]

CollapsedForestInitLax(p, q, n_trees, forest) ==
    IF CollapsedTreeInit(p, q, None).err # "none" THEN Raised("ValueError")
    ELSE IF forest = None /\ p = None /\ q = None THEN Raised("ValueError")
    ELSE IF forest # None /\ Len(Get(forest)) = 0 THEN Raised("ValueError")
    ELSE IF n_trees # None /\ Get(n_trees) < 1 THEN Raised("ValueError")
    ELSE Returned(CollapsedForestObject(p, q, n_trees, forest # None, forest))

\* CollapsedForest.__init__(p, q, n_trees, forest), each argument None or
\* Some(x); a forest is a sequence of trees.  The last assignment,
\* self._n_trees = n_trees, is made whatever the one before it did.
CollapsedForestInit(p, q, n_trees, forest) ==
    IF CollapsedTreeInit(p, q, None).err # "none" THEN Raised("ValueError")
    ELSE IF forest = None /\ p = None /\ q = None THEN Raised("ValueError")
    ELSE IF forest # None /\ Len(Get(forest)) = 0 THEN Raised("ValueError")
    ELSE IF forest # None /\ n_trees # None /\ Len(Get(forest)) # Get(n_trees)
         THEN Raised("ValueError")
    ELSE IF n_trees # None /\ Get(n_trees) < 1 THEN Raised("ValueError")
    ELSE Returned(CollapsedForestObject(p, q, n_trees, forest # None, forest))

RECURSIVE Terms(_, _, _, _, _, _, _)
\* the terms after R, what l returned for tree i
TermsAfterL(R, forest, p, q, sign, i, done) ==
    IF R.r.err # "none" THEN [S |-> R.S, err |-> R.r.err, terms |-> done]
    ELSE Terms(R.S, forest, p, q, sign, i + 1, Append(done, R.r.val))

\* the terms after o, what CollapsedTree(tree=tree) gave for tree i
TermsAfterInit(S, o, forest, p, q, sign, i, done) ==
    IF o.err # "none" THEN [S |-> S, err |-> o.err, terms |-> done]
    ELSE TermsAfterL(TreeL(S, o.val, p, q, sign), forest, p, q, sign, i, done)

\* [CollapsedTree(tree=tree).l((p, q), sign) for tree in self._forest] from
\* tree i on, after the results in done: the table left and the results, or
\* the first exception
Terms(S, forest, p, q, sign, i, done) ==
    IF i > Len(forest) THEN [S |-> S, err |-> "none", terms |-> done]
    ELSE TermsAfterInit(S, CollapsedTreeInit(None, None, Some(forest[i])),
                        forest, p, q, sign, i, done)

RECURSIVE SumExp(_, _)
\* scipy.exp([x[0] for x in terms]).sum()
SumExp(terms, i) ==
    IF i > Len(terms) THEN RZero ELSE RAdd(ExpOf(terms[i].l), SumExp(terms, i + 1))

RECURSIVE WeightedSum(_, _, _)
\* sum(scipy.exp(x[0])*x[1][j] for x in terms)
WeightedSum(terms, j, i) ==
    IF i > Len(terms) THEN Fin(RZero)
    ELSE EAdd(EScale(ExpOf(terms[i].l), terms[i].grad[j]), WeightedSum(terms, j, i + 1))

MixtureSlip(terms, sign) ==
    LET sumexp == SumExp(terms, 1)
    IN [l |-> SignLog(sign, RDiv(sumexp, RInt(Len(terms)))),
        grad |-> <<EOver(WeightedSum(terms, 1, 1), sumexp),
                   EOver(WeightedSum(terms, 2, 1), sumexp)>>]

\* the Vlad_sum return value, of terms computed with sign 1:
\* sign*(-log(len(terms)) + logsumexp(ls)) is sign*log(sumexp/len(terms))
Mixture(terms, sign) ==
    LET sumexp == SumExp(terms, 1)
    IN [l |-> SignLog(sign, RDiv(sumexp, RInt(Len(terms)))),
        grad |-> <<ESign(sign, EOver(WeightedSum(terms, 1, 1), sumexp)),
                   ESign(sign, EOver(WeightedSum(terms, 2, 1), sumexp))>>]

RECURSIVE ProductExp(_, _)
ProductExp(terms, i) ==
    IF i > Len(terms) THEN ROne
    ELSE RMul(IF terms[i].l.k = "log" THEN terms[i].l.x ELSE RZero, ProductExp(terms, i + 1))

RECURSIVE GradSum(_, _, _)
\* sum(x[1][j] for x in terms)
GradSum(terms, j, i) ==
    IF i > Len(terms) THEN Fin(RZero)
    ELSE EAdd(terms[i].grad[j], GradSum(terms, j, i + 1))

\* the return value without Vlad_sum, of terms computed with sign:
\* sum(x[0] for x in terms) is sign*log of the product of the likelihoods
Independent(terms, sign) ==
    [l |-> SignLog(sign, ProductExp(terms, 1)),
     grad |-> <<GradSum(terms, 1, 1), GradSum(terms, 2, 1)>>]

\* the return statements, T being terms (or the exception raised on the way)
ForestLReturn(T, sign, Vlad_sum) ==
    IF T.err # "none" THEN [S |-> T.S, r |-> Raised(T.err)]
    ELSE [S |-> T.S,
          r |-> Returned(IF Vlad_sum THEN Mixture(T.terms, sign)
                         ELSE Independent(T.terms, sign))]

\* CollapsedForest.l((p, q), sign, Vlad_sum) on the object o with the table
\* of S: the table it leaves and what it returns
ForestL(S, o, p, q, sign, Vlad_sum) ==
    IF ~o.has_forest THEN [S |-> S, r |-> Raised("AttributeError")]
    ELSE IF o.forest = None THEN [S |-> S, r |-> Raised("ValueError")]
    ELSE IF SignRaises(sign) THEN [S |-> S, r |-> Raised("ValueError")]
    ELSE ForestLReturn(Terms(S, Get(o.forest), p, q, IF Vlad_sum THEN 1 ELSE sign, 1, << >>),
                       sign, Vlad_sum)

\* the trees of the forests: a single node of frequency 1, of frequency 0,
\* and of frequency 1 without sequence; the root of frequency 2 with a leaf
\* of frequency 1; a root of frequency 1 with a zero-length child of
\* frequency 1; a root of frequency 0 with a leaf of frequency 1
ForestTrees ==
    { TreeOf(1, << >>, << >>, <<1>>, <<1>>),
      TreeOf(1, << >>, << >>, <<0>>, <<1>>),
      TreeOf(1, << >>, << >>, <<1>>, NoSequences),
      TreeOf(2, [i \in {2} |-> 1], [i \in {2} |-> 1], <<2, 1>>, <<1, 2>>),
      TreeOf(2, [i \in {2} |-> 1], [i \in {2} |-> 0], <<1, 1>>, <<1, 2>>),
      TreeOf(2, [i \in {2} |-> 1], [i \in {2} |-> 1], <<0, 1>>, <<1, 2>>) }

\* the (p, q) the forest likelihoods are evaluated at
FPoints == { <<Rat(1, 2), Rat(1, 2)>>, <<ROne, RZero>> }

Forests == UNION {[1..n -> ForestTrees] : n \in 1..MaxTrees}

\* CollapsedForest(n_trees=n_trees, forest=forest)
NewCollapsedForest(n_trees, forest) ==
    /\ \E r \in {CollapsedForestInit(None, None, n_trees, Some(forest))} :
          /\ ret' = [r EXCEPT !.val = << >>]
          /\ obj' = IF r.err = "none" THEN r.val ELSE NoObject
    /\ last' = [op |-> "CollapsedForest", n_trees |-> n_trees, forest |-> forest]
    /\ UNCHANGED <<f_hash, calls, writes, ncalls>>

\* self.l((p, q), sign, Vlad_sum) on the CollapsedForest
CallForestL(p, q, sign, Vlad_sum) ==
    /\ obj.kind = "forest"
    /\ \E R \in {ForestL(EvalState(f_hash), obj, p, q, sign, Vlad_sum)} :
          /\ f_hash' = R.S.tab
          /\ calls' = R.S.calls
          /\ writes' = R.S.writes
          /\ ret' = R.r
    /\ last' = [op |-> "l", p |-> p, q |-> q, sign |-> sign, Vlad_sum |-> Vlad_sum]
    /\ UNCHANGED <<ncalls, obj>>

\* one construction in a behaviour
NextForestL ==
    \/ last.op = "init"
         /\ \E forest \in Forests, n_trees \in {None, Some(1)} :
               NewCollapsedForest(n_trees, forest)
    \/ \E pt \in FPoints, sign \in Signs, Vlad_sum \in BOOLEAN :
          CallForestL(pt[1], pt[2], sign, Vlad_sum)

SpecForestL == InitCollapse /\ [][NextForestL]_vars

-----------------------------------------------------------------------------
(* Claims about CollapsedForest.l, checked under SpecForestL *)

\* the likelihood of the tree t at (p, q): the product of f over the nodes
\* of its collapse that l sums over, from the table
TreeLikelihood(t, p, q) ==
    LET ct == Collapse(t)
    IN RProdOver({<<v, f_hash[Key(p, q, NodeCM(ct, v)[1], NodeCM(ct, v)[2])][1]>> :
                     v \in SummedNodes(ct)})

\* in general: the mixture value is sign * log of the mean of the trees'
\* likelihoods, the independent value the sum of the trees' l((p,q), sign)
ModeValues ==
    (last.op = "l" /\ ret.err = "none") =>
        LET forest == Get(obj.forest)
            Ls == {<<i, TreeLikelihood(forest[i], last.p, last.q)>> : i \in 1..Len(forest)}
        IN IF last.Vlad_sum
           THEN IsSignLog(ret.val.l, last.sign, RDiv(RSumOver(Ls), RInt(Len(forest))))
           ELSE IsSignLog(ret.val.l, last.sign, RProdOver(Ls))

\* two successive calls on a forest of one tree, with the same (p, q) and
\* sign, one in each mode, both returning
BothModes ==
    /\ last.op = "l" /\ last'.op = "l"
    /\ Len(Get(obj.forest)) = 1
    /\ last'.p = last.p /\ last'.q = last.q /\ last'.sign = last.sign
    /\ last'.Vlad_sum # last.Vlad_sum
    /\ ret.err = "none" /\ ret'.err = "none"

\* C10 as claimed: for a forest of one tree the two modes return the same
\* log-likelihood and the same gradient at every (p,q), for both signs; and
\* in general the mixture value is sign*(log-mean-exp of the trees'
\* log-likelihoods), the independent value the sum of the trees' values.
C10_ModesAgree ==
    /\ [][BothModes => (ret'.val.l = ret.val.l /\ ret'.val.grad = ret.val.grad)]_vars
    /\ []ModeValues

\* C10 as amended: the log-likelihoods are the same at every (p,q), for both
\* signs; the gradients are the same wherever the likelihood of the tree is
\* not 0.
C10_ModesAgreeNonzero ==
    /\ [][BothModes =>
             /\ ret'.val.l = ret.val.l
             /\ ret.val.l.k = "log" => ret'.val.grad = ret.val.grad]_vars
    /\ []ModeValues

\* the mixture of that tree at (1/2, 1/2), sign -1: the
\* value and gradient of the tree itself
C10_Witness ==
    /\ last.op = "l"
    /\ last.Vlad_sum
    /\ last.sign = -1
    /\ last.p = Rat(1, 2)
    /\ obj.kind = "forest"
    /\ Len(Get(obj.forest)) = 1
    /\ ByHandTree(Get(obj.forest)[1])
    /\ ret.err = "none"
    /\ ret.val.l = [k |-> "log", s |-> -1, x |-> <<3, 256>>]
    /\ ret.val.grad = <<Fin(RInt(2)), Fin(RInt(4))>>

-----------------------------------------------------------------------------
(* l on objects whose data is unset, and with signs other than 1 and -1 *)

\* CollapsedTree(p=p, q=q, tree=tree), each argument None or Some(x)
NewCollapsedTreeOf(p, q, tree) ==
    /\ \E r \in {CollapsedTreeInit(p, q, tree)} :
          /\ ret' = [r EXCEPT !.val = << >>]
          /\ obj' = IF r.err = "none" THEN r.val ELSE NoObject
    /\ last' = [op |-> "CollapsedTree", p |-> p, q |-> q, tree |-> tree]
    /\ UNCHANGED <<f_hash, calls, writes, ncalls>>

\* CollapsedForest(p=p, q=q, n_trees=n_trees, forest=forest), each argument
\* None or Some(x)
NewCollapsedForestOf(p, q, n_trees, forest) ==
    /\ \E r \in {CollapsedForestInit(p, q, n_trees, forest)} :
          /\ ret' = [r EXCEPT !.val = << >>]
          /\ obj' = IF r.err = "none" THEN r.val ELSE NoObject
    /\ last' = [op |-> "CollapsedForest", p |-> p, q |-> q, n_trees |-> n_trees,
                forest |-> forest]
    /\ UNCHANGED <<f_hash, calls, writes, ncalls>>

\* the signs l is called with
AnySigns == {-1, 0, 1, 2}

\* the trees and the forests the objects with data are built of
DataTrees ==
    { TreeOf(1, << >>, << >>, <<1>>, <<1>>),
      TreeOf(2, [i \in {2} |-> 1], [i \in {2} |-> 1], <<2, 1>>, <<1, 2>>) }

DataForests == UNION {[1..n -> DataTrees] : n \in 1..2}

\* the n_trees a forest without data is built with
TreeCounts == {None, Some(1), Some(2)}

NextLErrors ==
    \/ \E pt \in FPoints : NewCollapsedTreeOf(Some(pt[1]), Some(pt[2]), None)
    \/ \E tree \in DataTrees : NewCollapsedTreeOf(None, None, Some(tree))
    \/ \E pt \in FPoints, n_trees \in TreeCounts :
          NewCollapsedForestOf(Some(pt[1]), Some(pt[2]), n_trees, None)
    \/ \E forest \in DataForests : NewCollapsedForestOf(None, None, None, Some(forest))
    \/ \E pt \in FPoints, sign \in AnySigns : CallTreeL(pt[1], pt[2], sign)
    \/ \E pt \in FPoints, sign \in AnySigns, Vlad_sum \in BOOLEAN :
          CallForestL(pt[1], pt[2], sign, Vlad_sum)

SpecLErrors == InitCollapse /\ [][NextLErrors]_vars

\* the object has no data: a CollapsedTree without tree, a CollapsedForest
\* whose forest was never set
DataUnset ==
    \/ obj.kind = "tree" /\ obj.tree = None
    \/ obj.kind = "forest" /\ (~obj.has_forest \/ obj.forest = None)

\* C11: l fails with ValueError and leaves the memo table as it was (no f
\* is evaluated) whenever the object's data is unset (a CollapsedTree
\* without tree, a CollapsedForest built of p, q and n_trees only) or sign
\* is neither 1 nor -1.
C11_FailsWithValueError ==
    [][(last'.op = "l" /\ (DataUnset \/ last'.sign \notin {-1, 1}))
          => (ret'.err = "ValueError" /\ f_hash' = f_hash /\ calls' = calls)]_vars

-----------------------------------------------------------------------------
(* mle.  scipy's minimize is outside the repository: it evaluates the      *)
(* function it is given at points within the bounds, at least once (at    *)
(* x0), and returns a result with its fields success and x; which points, *)
(* and which result, is not determined here.                               *)

\* self.l(x, **kwargs) of the lambda: the l of the object's class
SelfL(S, o, p, q, sign, Vlad_sum) ==
    IF o.kind = "forest" THEN ForestL(S, o, p, q, sign, Vlad_sum)
    ELSE TreeL(S, o, p, q, sign)

RECURSIVE Minimize(_, _, _, _, _)
\* the evaluations after R, what l returned at xs[i]: an exception of l
\* leaves minimize
MinimizeAfterL(R, o, xs, i, Vlad_sum) ==
    IF R.r.err # "none" THEN [S |-> R.S, err |-> R.r.err]
    ELSE Minimize(R.S, o, xs, i + 1, Vlad_sum)

\* minimize(lambda x: self.l(x, **kwargs), ...) with kwargs['sign'] = -1,
\* evaluating at the points xs from xs[i] on: the table left and the
\* exception raised, if any
Minimize(S, o, xs, i, Vlad_sum) ==
    IF i > Len(xs) THEN [S |-> S, err |-> "none"]
    ELSE MinimizeAfterL(SelfL(S, o, xs[i][1], xs[i][2], -1, Vlad_sum), o, xs, i, Vlad_sum)

MleAdoptsAlways(success, p, q) == success

\* not (not result.success), and the elif: self._p is None and self._q is None
MleAdopts(success, p, q) == success /\ p = None /\ q = None

\* the object after the if/elif on the result
MleObject(o, success, x) ==
    IF MleAdopts(success, o.p, o.q) THEN [o EXCEPT !.p = Some(x[1]), !.q = Some(x[2])]
    ELSE o

\* what mle returns, result being the optimizer's
MleReturn(success, x) ==
    WarnedIf(Returned([success |-> success, x |-> x]), ~success, "optimization not sucessful")

\* points within bounds = ((.01, .99), (.001, .999))
MlePoints == { <<Rat(1, 2), Rat(1, 2)>>, <<Rat(1, 3), Rat(2, 3)>> }

\* the points the optimizer evaluates l at: x0, and possibly one more
MleEvaluations ==
    { <<<<Rat(1, 2), Rat(1, 2)>>>>, <<<<Rat(1, 3), Rat(2, 3)>>>>,
      <<<<Rat(1, 2), Rat(1, 2)>>, <<Rat(1, 3), Rat(2, 3)>>>> }

\* self.mle(**kwargs), the optimizer evaluating at xs and reporting
\* success and x; Vlad_sum is passed on to l by a forest
Mle(xs, success, x, Vlad_sum) ==
    /\ obj.kind \in {"tree", "forest"}
    /\ obj.kind = "tree" => ~Vlad_sum
    /\ \E M \in {Minimize(EvalState(f_hash), obj, xs, 1, Vlad_sum)} :
          /\ f_hash' = M.S.tab
          /\ calls' = M.S.calls
          /\ writes' = M.S.writes
          /\ ret' = IF M.err # "none" THEN Raised(M.err) ELSE MleReturn(success, x)
          /\ obj' = IF M.err # "none" THEN obj ELSE MleObject(obj, success, x)
    /\ last' = [op |-> "mle", xs |-> xs, success |-> success, x |-> x,
                Vlad_sum |-> Vlad_sum, p |-> obj.p, q |-> obj.q]
    /\ UNCHANGED ncalls

\* one object in a behaviour, and mle on it; again after an mle that found
\* p and q unset
NextMle ==
    \/ last.op = "init"
         /\ \E tree \in DataTrees, pq \in {<<None, None>>, <<Some(Rat(1, 2)), Some(Rat(1, 2))>>} :
               NewCollapsedTreeOf(pq[1], pq[2], Some(tree))
    \/ last.op = "init"
         /\ \E forest \in DataForests, pq \in {<<None, None>>, <<Some(Rat(1, 2)), Some(Rat(1, 2))>>} :
               NewCollapsedForestOf(pq[1], pq[2], None, Some(forest))
    \/ last.op = "init" /\ NewCollapsedTreeOf(Some(Rat(1, 2)), Some(Rat(1, 2)), None)
    \/ (last.op = "mle" => last.p = None)
         /\ \E xs \in MleEvaluations, success \in BOOLEAN, x \in MlePoints, Vlad_sum \in BOOLEAN :
               Mle(xs, success, x, Vlad_sum)

SpecMle == InitCollapse /\ [][NextMle]_vars

-----------------------------------------------------------------------------
(* LeavesAndClades.simulate.  A draw random.random() < x, random() being  *)
(* in [0, 1), is a boolean: it can be true only if x > 0 and false only   *)
(* if x < 1.                                                              *)

MaxDraws == 5

\* the outcomes of random.random() < x
Draws(x) == {b \in BOOLEAN : (b => x[1] > 0) /\ (~b => x[1] < x[2])}

\* sum(random.random() < self._q for child in range(2))
MutantCounts(q) ==
    {(IF d1 THEN 1 ELSE 0) + (IF d2 THEN 1 ELSE 0) : d1 \in Draws(q), d2 \in Draws(q)}

\* one iteration's draws: whether the node branches, and its mutants
Outcomes(p, q) ==
    {<<b, IF b THEN k ELSE 0>> : b \in Draws(p), k \in MutantCounts(q)}

SimClonesSlip(mutants) == 2

\* clones = 2 - mutants
SimClones(mutants) == 2 - mutants

\* the assignments before the loop
SimStart(o) ==
    [kind |-> "simulating", p |-> o.p, q |-> o.q, c |-> Some(0), m |-> Some(0),
     cumsum_clones |-> 0, len_tree |-> 0]

\* the loop's condition
SimContinues(st) == st.cumsum_clones > st.len_tree - 1

\* the loop's body, with the draws of outcome
SimStep(st, outcome) ==
    IF outcome[1]
    THEN [st EXCEPT !.m = Some(Get(@) + outcome[2]),
                    !.cumsum_clones = @ + SimClones(outcome[2]),
                    !.len_tree = @ + 1]
    ELSE [st EXCEPT !.c = Some(Get(@) + 1),
                    !.cumsum_clones = @ + 0,
                    !.len_tree = @ + 1]

\* the statements before the assignments: the warning, and the exception
SimWarns(p) == p # None /\ RLeq(Rat(1, 2), Get(p))

SimRaises(p, q) == p = None \/ q = None

\* the instance the method leaves
SimNode(st) == [kind |-> "node", p |-> st.p, q |-> st.q, c |-> st.c, m |-> st.m]

\* self.simulate() up to the loop, on a LeavesAndClades
SimBegin ==
    /\ obj.kind = "node"
    /\ ret' = WarnedIf(IF SimRaises(obj.p, obj.q) THEN Raised("ValueError") ELSE NoReturn,
                       SimWarns(obj.p), "p >= .5")
    /\ obj' = IF SimRaises(obj.p, obj.q) THEN obj ELSE SimStart(obj)
    /\ last' = [op |-> "simulate", branchings |-> 0]
    /\ UNCHANGED <<f_hash, calls, writes, ncalls>>

\* one iteration of the loop
SimIterate(outcome) ==
    /\ obj.kind = "simulating"
    /\ SimContinues(obj)
    /\ obj.len_tree < MaxDraws
    /\ obj' = SimStep(obj, outcome)
    /\ last' = [op |-> "iterate", outcome |-> outcome,
                branchings |-> last.branchings + (IF outcome[1] THEN 1 ELSE 0)]
    /\ UNCHANGED <<f_hash, ret, calls, writes, ncalls>>

\* the end of the loop, the assertion and the return
SimExit ==
    /\ obj.kind = "simulating"
    /\ ~SimContinues(obj)
    /\ ret' = IF obj.cumsum_clones = obj.len_tree - 1 THEN [ret EXCEPT !.val = None]
              ELSE Raised("AssertionError")
    /\ obj' = SimNode(obj)
    /\ last' = [op |-> "return", branchings |-> last.branchings,
                cumsum_clones |-> obj.cumsum_clones, len_tree |-> obj.len_tree]
    /\ UNCHANGED <<f_hash, calls, writes, ncalls>>

\* the (p, q) of the simulated instances
SimArgs ==
    { <<None, None>>,
      <<Some(Rat(1, 3)), Some(Rat(2, 3))>>, <<Some(Rat(1, 2)), Some(Rat(1, 2))>>,
      <<Some(Rat(1, 4)), Some(RZero)>>, <<Some(Rat(2, 5)), Some(ROne)>>,
      <<Some(RZero), Some(Rat(1, 2))>>, <<Some(ROne), Some(Rat(1, 2))>> }

NextSimLoop ==
    \/ last.op = "init" /\ \E pq \in SimArgs : NewNode(pq[1], pq[2], None, None)
    \/ SimBegin
    \/ obj.kind = "simulating" /\ \E outcome \in Outcomes(Get(obj.p), Get(obj.q)) :
          SimIterate(outcome)
    \/ SimExit

SpecSimLoop == InitNode /\ [][NextSimLoop]_vars

\* cumsum_clones - (len_tree - 1)
Excess(st) == st.cumsum_clones - (st.len_tree - 1)

\* C16: in the loop of LeavesAndClades.simulate the quantity
\* cumsum_clones - (len_tree - 1) starts at 1, changes by -1, 0 or +1 in an
\* iteration, and the loop is left exactly when it is 0, so the assertion
\* holds; len_tree = c + branchings and cumsum_clones = 2*branchings - m
\* throughout; on exit c + m = branchings + 1, so (c, m) is neither (0, 0)
\* nor (0, 1).
C16_LoopInvariant ==
    /\ [](obj.kind = "simulating" =>
             /\ Excess(obj) >= 0
             /\ obj.len_tree = Get(obj.c) + last.branchings
             /\ obj.cumsum_clones = 2 * last.branchings - Get(obj.m))
    /\ [](last.op = "return" =>
             /\ ret.err = "none"
             /\ last.cumsum_clones - (last.len_tree - 1) = 0
             /\ Get(obj.c) + Get(obj.m) = last.branchings + 1
             /\ <<Get(obj.c), Get(obj.m)>> \notin {<<0, 0>>, <<0, 1>>})
    /\ [][/\ (last'.op = "simulate" /\ obj'.kind = "simulating") => Excess(obj') = 1
          /\ last'.op = "iterate" =>
                (Excess(obj) > 0 /\ Excess(obj') - Excess(obj) \in {-1, 0, 1})
          /\ (obj.kind = "simulating" /\ Excess(obj) = 0) => last'.op = "return"]_vars

\* a run of three iterations that branches twice with one mutant each, then
\* draws a leaf, and leaves c = 1, m = 2
C16_Witness ==
    /\ last.op = "return"
    /\ last.branchings = 2
    /\ last.len_tree = 3
    /\ ret.err = "none"
    /\ obj.kind = "node"
    /\ obj.c = Some(1)
    /\ obj.m = Some(2)

-----------------------------------------------------------------------------
(* CollapsedTree.simulate.  The draws of a whole run are a tape of         *)
(* outcomes, read from left to right by the nested calls of                *)
(* LeavesAndClades.simulate; a run is one that reads its tape to the end.  *)
(* ete3's Tree() gives a node without parent and children, of dist 1.0,    *)
(* with no sequence feature; add_child appends to the children.            *)

RECURSIVE SimLoop(_, _, _)
\* the loop of LeavesAndClades.simulate from the state st, reading the tape
\* from pos on: the state and position at the exit, done if it is reached
SimLoop(st, tape, pos) ==
    IF ~SimContinues(st) THEN [st |-> st, pos |-> pos, done |-> TRUE]
    ELSE IF pos > Len(tape) THEN [st |-> st, pos |-> pos, done |-> FALSE]
    ELSE SimLoop(SimStep(st, tape[pos]), tape, pos + 1)

\* LeavesAndClades.simulate(self) with p and q set
LeavesAndCladesSimulate(p, q, tape, pos) ==
    SimLoop(SimStart([p |-> p, q |-> q]), tape, pos)

\* no node yet, the tape unread
NoNodes(tape) ==
    [tape |-> tape, pos |-> 1, done |-> TRUE, n |-> 0, up |-> << >>,
     children |-> << >>, dist |-> << >>, frequency |-> << >>]

SimFrequencySlip(st) == Get(st.m)

\* self._tree.add_feature('frequency', self._c)
SimFrequency(st) == Get(st.c)

\* self._tree = Tree() with its frequency, L being what
\* LeavesAndClades.simulate left
NewTree(B, L) ==
    [B EXCEPT !.pos = L.pos, !.n = @ + 1, !.up = Append(@, NoParent),
              !.children = Append(@, << >>), !.dist = Append(@, 1),
              !.frequency = Append(@, SimFrequency(L.st))]

\* parent.add_child(child)
SimAddChild(B, parent, child) ==
    IF ~B.done THEN B
    ELSE [B EXCEPT !.children[parent] = Append(@, child), !.up[child] = parent]

RECURSIVE SimChildren(_, _, _, _, _)
RECURSIVE CollapsedTreeSimulate(_, _, _)
\* for _ in range(self._m): self._tree.add_child(
\*     CollapsedTree(p=self._p, q=self._q).simulate()._tree), k children to go
SimChildren(B, p, q, parent, k) ==
    IF k = 0 \/ ~B.done THEN B
    ELSE SimChildren(SimAddChild(CollapsedTreeSimulate(B, p, q), parent, B.n + 1),
                     p, q, parent, k - 1)

\* simulate from the new tree on: the children, if self._m is not 0
SimSubtree(B, L, p, q) ==
    IF ~L.done THEN [B EXCEPT !.done = FALSE]
    ELSE SimChildren(NewTree(B, L), p, q, B.n + 1, Get(L.st.m))

\* CollapsedTree.simulate with p and q set, the nodes made so far being B:
\* the nodes after it, the new tree's being those from B.n + 1 on
CollapsedTreeSimulate(B, p, q) ==
    SimSubtree(B, LeavesAndCladesSimulate(p, q, B.tape, B.pos), p, q)

\* the tree of the nodes first..B.n, renumbered from 1
TreeFrom(B, first) ==
    LET n == B.n - first + 1
        off == first - 1
    IN [n |-> n,
        up |-> [i \in 1..n |-> IF i = Root THEN NoParent ELSE B.up[i + off] - off],
        children |-> [i \in 1..n |->
                        [j \in 1..Len(B.children[i + off]) |-> B.children[i + off][j] - off]],
        dist |-> [i \in 1..n |-> B.dist[i + off]],
        frequency |-> [i \in 1..n |-> B.frequency[i + off]],
        sequence |-> NoSequences]

\* the tapes of the draws of a run
Tapes(p, q) == UNION {[1..n -> Outcomes(p, q)] : n \in 1..MaxDraws}

\* the object self.simulate() leaves, B being the run's nodes and L the
\* root's LeavesAndClades.simulate
SimulatedTree(o, B, L) ==
    [kind |-> "tree", p |-> o.p, q |-> o.q, tree |-> Some(TreeFrom(B, 1)),
     c |-> L.st.c, m |-> L.st.m]

\* self.simulate() on a CollapsedTree without p or q
SimulateUnset ==
    /\ obj.kind = "tree"
    /\ SimRaises(obj.p, obj.q)
    /\ ret' = Raised("ValueError")
    /\ last' = [op |-> "simulate", tape |-> << >>]
    /\ UNCHANGED <<f_hash, calls, writes, ncalls, obj>>

\* self.simulate() on a CollapsedTree, the draws being those of tape
Simulate(tape) ==
    /\ obj.kind = "tree"
    /\ ~SimRaises(obj.p, obj.q)
    /\ \E B \in {CollapsedTreeSimulate(NoNodes(tape), obj.p, obj.q)} :
          /\ B.done
          /\ B.pos = Len(tape) + 1
          /\ obj' = SimulatedTree(obj, B,
                                  LeavesAndCladesSimulate(obj.p, obj.q, tape, 1))
    /\ ret' = WarnedIf(NoReturn, SimWarns(obj.p), "p >= .5")
    /\ last' = [op |-> "simulate", tape |-> tape]
    /\ UNCHANGED <<f_hash, calls, writes, ncalls>>

\* the (p, q) of the simulated trees
SimPoints == { <<Rat(1, 3), Rat(2, 3)>>, <<Rat(1, 2), Rat(1, 2)>> }

\* one object in a behaviour, simulated once, and its own l
NextSimTree ==
    \/ last.op = "init" /\ \E pt \in SimPoints : NewCollapsedTreeOf(Some(pt[1]), Some(pt[2]), None)
    \/ last.op = "init" /\ NewCollapsedTreeOf(None, None, Some(TreeOf(1, << >>, << >>, <<1>>, <<1>>)))
    \/ SimulateUnset
    \/ (last.op = "CollapsedTree" /\ obj.kind = "tree" /\ ~SimRaises(obj.p, obj.q))
         /\ \E tape \in Tapes(Get(obj.p), Get(obj.q)) : Simulate(tape)
    \/ (obj.kind = "tree" /\ ~SimRaises(obj.p, obj.q))
         /\ \E sign \in Signs : CallTreeL(Get(obj.p), Get(obj.q), sign)

SpecSimTree == InitCollapse /\ [][NextSimTree]_vars


\* the value is a finite number
Finite(v) == v.k \in {"fin", "log"}

\* C13: for every tree CollapsedTree.simulate() produces under 0 < p < 1 and
\* 0 < q < 1, l((p, q)) of the same object at the same (p, q) is finite
\* (every node's f is positive); no node of a simulated tree has
\* (c, m) = (0, 0) or (0, 1), c being its frequency and m its number of
\* children.
C13_SimulatedLikelihoodFinite ==
    /\ (last.op = "simulate" /\ ret.err = "none") =>
          \A v \in Nodes(Get(obj.tree)) :
             NodeCM(Get(obj.tree), v) \notin {<<0, 0>>, <<0, 1>>}
    /\ (last.op = "l" /\ "c" \in DOMAIN obj) =>
          /\ ret.err = "none"
          /\ Finite(ret.val.l)
          /\ Finite(ret.val.grad[1])
          /\ Finite(ret.val.grad[2])
          /\ \A v \in Nodes(Get(obj.tree)) :
                f_hash[Key(last.p, last.q, NodeCM(Get(obj.tree), v)[1],
                           NodeCM(Get(obj.tree), v)[2])][1][1] > 0

\* l of a simulated tree of five nodes: a root without clonal leaves, one of
\* its two children again without
C13_Witness ==
    /\ last.op = "l"
    /\ "c" \in DOMAIN obj
    /\ obj.c = Some(0)
    /\ obj.m = Some(2)
    /\ Get(obj.tree).n = 5
    /\ Get(obj.tree).frequency = <<0, 0, 1, 1, 1>>
    /\ Get(obj.tree).up = <<0, 1, 2, 2, 1>>
    /\ ret.err = "none"
    /\ ret.val.l.k = "log"

-----------------------------------------------------------------------------
(* CollapsedForest: construction, simulate, l and mle *)

RECURSIVE SimTrees(_, _, _, _, _, _)
\* the list after B, the run of tree.simulate() for one more tree
SimTreesAfter(B, tape, p, q, k, trees) ==
    IF ~B.done THEN [pos |-> B.pos, done |-> FALSE, trees |-> trees]
    ELSE SimTrees(tape, B.pos, p, q, k - 1, Append(trees, TreeFrom(B, 1)))

\* [tree.simulate().get('tree') for x in range(k)] after the trees made so
\* far, reading the tape from pos on
SimTrees(tape, pos, p, q, k, trees) ==
    IF k = 0 THEN [pos |-> pos, done |-> TRUE, trees |-> trees]
    ELSE SimTreesAfter(CollapsedTreeSimulate([NoNodes(tape) EXCEPT !.pos = pos], p, q),
                       tape, p, q, k, trees)

\* T is a run of the tape: the loops ended, and the tape was read to its end
IsRun(T, tape) == T.done /\ T.pos = Len(tape) + 1

\* if self._p is None or self._q is None or self._n_trees is None: raise
ForestSimRaises(o) == o.p = None \/ o.q = None \/ o.n_trees = None

\* self.simulate() on a CollapsedForest whose p, q or n_trees is None
ForestSimulateUnset ==
    /\ obj.kind = "forest"
    /\ ForestSimRaises(obj)
    /\ ret' = Raised("ValueError")
    /\ last' = [op |-> "simulate", tape |-> << >>]
    /\ UNCHANGED <<f_hash, calls, writes, ncalls, obj>>

\* self.simulate() on a CollapsedForest, the draws being those of tape
ForestSimulate(tape) ==
    /\ obj.kind = "forest"
    /\ ~ForestSimRaises(obj)
    /\ \E T \in {SimTrees(tape, 1, obj.p, obj.q, Get(obj.n_trees), << >>)} :
          /\ IsRun(T, tape)
          /\ obj' = [obj EXCEPT !.has_forest = TRUE, !.forest = Some(T.trees)]
    /\ ret' = WarnedIf(NoReturn, SimWarns(obj.p), "p >= .5")
    /\ last' = [op |-> "simulate", tape |-> tape]
    /\ UNCHANGED <<f_hash, calls, writes, ncalls>>

\* the tapes that are runs of simulate() for n trees at the point pt
ForestTapes ==
    [pt \in SimPoints |->
        [n \in 1..MaxTrees |->
            {run : run \in
                {tape \in Tapes(pt[1], pt[2]) :
                    IsRun(SimTrees(tape, 1, Some(pt[1]), Some(pt[2]), n, << >>), tape)}}]]

\* the arguments of the constructor
ForestPQ == {<<None, None>>} \cup {<<Some(pt[1]), Some(pt[2])>> : pt \in SimPoints}

ForestCounts == {None} \cup {Some(n) : n \in 0..MaxTrees}

ForestLists ==
    { None, Some(<< >>),
      Some(<<TreeOf(1, << >>, << >>, <<1>>, <<1>>)>>),
      Some(<<TreeOf(1, << >>, << >>, <<1>>, <<1>>),
             TreeOf(2, [i \in {2} |-> 1], [i \in {2} |-> 1], <<2, 1>>, <<1, 2>>)>>) }

\* one object in a behaviour; simulate, l and mle on it in any order
NextForest ==
    \/ last.op = "init"
         /\ \E pq \in ForestPQ, n_trees \in ForestCounts, forest \in ForestLists :
               NewCollapsedForestOf(pq[1], pq[2], n_trees, forest)
    \/ ForestSimulateUnset
    \/ (obj.kind = "forest" /\ ~ForestSimRaises(obj))
         /\ \E tape \in ForestTapes[<<Get(obj.p), Get(obj.q)>>][Get(obj.n_trees)] :
               ForestSimulate(tape)
    \/ \E sign \in Signs, Vlad_sum \in BOOLEAN :
          CallForestL(Rat(1, 2), Rat(1, 2), sign, Vlad_sum)
    \/ (obj.kind = "forest" /\ last.op # "mle")
         /\ \E success \in BOOLEAN, x \in MlePoints :
               Mle(<<<<Rat(1, 2), Rat(1, 2)>>>>, success, x, FALSE)

SpecForest == InitCollapse /\ [][NextForest]_vars


\* the object holds a forest
ForestHeld == obj.has_forest /\ obj.forest # None

\* C14: in every state of a successfully constructed CollapsedForest, after
\* the construction and any number of simulate calls: if n_trees is set and
\* a forest is held, n_trees = len(forest); a held forest has at least one
\* tree; n_trees, if set, is at least 1.  A construction with an empty
\* list, with an n_trees that differs from the list's length, or with
\* n_trees < 1 fails with ValueError.
C14_ForestInvariant ==
    /\ obj.kind = "forest" =>
          /\ (obj.n_trees # None /\ ForestHeld) => Get(obj.n_trees) = Len(Get(obj.forest))
          /\ ForestHeld => Len(Get(obj.forest)) >= 1
          /\ obj.n_trees # None => Get(obj.n_trees) >= 1
    /\ (/\ last.op = "CollapsedForest"
        /\ \/ last.forest # None /\ Len(Get(last.forest)) = 0
           \/ last.forest # None /\ last.n_trees # None
                 /\ Get(last.n_trees) # Len(Get(last.forest))
           \/ last.n_trees # None /\ Get(last.n_trees) < 1)
       => (ret.err = "ValueError" /\ obj = NoObject)

\* a forest built with n_trees = 2 and simulated: two trees, of three nodes
\* and of one
C14_Witness ==
    /\ last.op = "simulate"
    /\ ret.err = "none"
    /\ obj.kind = "forest"
    /\ obj.n_trees = Some(2)
    /\ ForestHeld
    /\ Len(Get(obj.forest)) = 2
    /\ Get(obj.forest)[1].n = 3
    /\ Get(obj.forest)[2].n = 1


\* C17: a CollapsedForest constructed from a non-empty list without n_trees
\* has n_trees = len(list) (get('n_trees') returns len(forest)), so that a
\* later simulate() with p and q set draws that many trees.
C17_NTreesFromList ==
    /\ []((/\ last.op = "CollapsedForest"
           /\ last.forest # None
           /\ Len(Get(last.forest)) > 0
           /\ last.n_trees = None
           /\ ret.err = "none")
          => obj.n_trees = Some(Len(Get(last.forest))))
    /\ [][(/\ last'.op = "simulate"
           /\ obj.kind = "forest"
           /\ ForestHeld
           /\ obj.p # None
           /\ obj.q # None)
          => (/\ ret'.err = "none"
              /\ Len(Get(obj'.forest)) = Len(Get(obj.forest)))]_vars

\* C18: after CollapsedForest(p, q, n).simulate() with 0 < p < 0.5,
\* 0 < q < 1 and n >= 1, l((p', q')) at any point, and hence mle(),
\* re-wraps each simulated tree in a CollapsedTree and returns without
\* raising: the simulated trees carry every per-node field the constructor
\* reads (frequency, dist, sequence, children); the forest's trees are not
\* changed by the evaluation.
C18_LikelihoodAfterSimulate ==
    [][(/\ last.op = "simulate"
        /\ ret.err = "none"
        /\ obj.kind = "forest"
        /\ ~RLeq(Rat(1, 2), Get(obj.p))
        /\ last'.op \in {"l", "mle"})
       => (/\ ret'.err = "none"
           /\ obj'.forest = obj.forest
           /\ \A i \in 1..Len(Get(obj.forest)) :
                 Get(obj.forest)[i].sequence # NoSequences)]_vars

-----------------------------------------------------------------------------
(* f called by several threads on the one class-level table, without a    *)
(* lock.  The interpreter makes each access to the dict atomic: the test  *)
(* `not in`, the assignment f_hash[...] = ..., and the read of the return *)
(* statement; a thread can be preempted between any two of them.  A step  *)
(* of a thread is one access followed by the code up to its next access  *)
(* (that code touches the thread's own frames only).  A frame is a call   *)
(* of f: its c and m, where it stands (pc), the sums f_result,            *)
(* dfdp_result, dfdq_result (acc), the iteration of the double loop (i),  *)
(* neighbor1's result (n1) and the value it is about to store (val).      *)

Threads == {1, 2}

\* the (p, q) of the calls
ThreadPoint == <<Rat(3, 10), Rat(1, 2)>>

\* the (c, m) of the instances the threads call f on
ThreadCalls == { <<1, 1>>, <<2, 0>>, <<0, 3>>, <<2, 1>> }

\* a call of f on the instance (c, m), before its test of the table
Frame(c, m) ==
    [c |-> c, m |-> m, pc |-> "check", acc |-> AccZero, i |-> 0, n1 |-> << >>,
     val |-> << >>]

RECURSIVE NextTaken(_, _, _)
\* the first iteration from i on whose (cx, mx) passes the if, or the end
NextTaken(i, c, m) ==
    IF i >= SplitCount(c, m) \/ SplitTaken(SplitCx(i, m), SplitMx(i, m), c, m) THEN i
    ELSE NextTaken(i + 1, c, m)

\* the frame fr at the iteration j of its double loop, above the frames
\* rest: it calls neighbor1.f, or is at the end of the loop, about to store
AtIteration(rest, fr, j) ==
    IF j >= SplitCount(fr.c, fr.m)
    THEN Append(rest, [fr EXCEPT !.i = j, !.pc = "store",
                                 !.val = Res(fr.acc.f, fr.acc.dfdp, fr.acc.dfdq)])
    ELSE Append(Append(rest, [fr EXCEPT !.i = j, !.pc = "n1"]),
                Frame(SplitCx(j, fr.m), SplitMx(j, fr.m)))

\* the double loop of fr resumed at its iteration fr.i
ResumeLoop(rest, fr) == AtIteration(rest, fr, NextTaken(fr.i, fr.c, fr.m))

\* the thread's frames after fr's test `(p, q, c, m) not in f_hash` on the
\* table tab, up to the next access
AfterCheck(tab, rest, fr, p, q) ==
    IF Key(p, q, fr.c, fr.m) \in DOMAIN tab THEN Append(rest, [fr EXCEPT !.pc = "ret"])
    ELSE IF BaseCase(fr.c, fr.m)
         THEN Append(rest, [fr EXCEPT !.pc = "store", !.val = BaseRes(p, q, fr.c, fr.m)])
    ELSE IF fr.m >= 1
         THEN Append(Append(rest, [fr EXCEPT !.pc = "peel"]), Frame(fr.c, fr.m - 1))
    ELSE ResumeLoop(rest, fr)

DeliverLost(below, fr, p, q, v) ==
    IF fr.pc = "peel" THEN ResumeLoop(below, [fr EXCEPT !.acc = PeelTerm(p, q, v), !.i = 0])
    ELSE IF fr.pc = "n1"
         THEN Append(Append(below, [fr EXCEPT !.n1 = v, !.pc = "n2"]),
                     Frame(fr.c - SplitCx(fr.i, fr.m), fr.m - SplitMx(fr.i, fr.m)))
    ELSE ResumeLoop(below, [fr EXCEPT !.i = @ + 1])

\* the caller fr, above the frames below, after the call it waits for has
\* returned v, up to its next access
Deliver(below, fr, p, q, v) ==
    IF fr.pc = "peel" THEN ResumeLoop(below, [fr EXCEPT !.acc = PeelTerm(p, q, v), !.i = 0])
    ELSE IF fr.pc = "n1"
         THEN Append(Append(below, [fr EXCEPT !.n1 = v, !.pc = "n2"]),
                     Frame(fr.c - SplitCx(fr.i, fr.m), fr.m - SplitMx(fr.i, fr.m)))
    ELSE ResumeLoop(below, [fr EXCEPT !.acc = AccAdd(@, SplitTerm(p, q, fr.n1, v)),
                                      !.i = @ + 1])

Top(stack) == stack[Len(stack)]
Pop(stack) == SubSeq(stack, 1, Len(stack) - 1)

InitThreads ==
    /\ f_hash = NoTable
    /\ ret = NoReturn
    /\ last = [op |-> "init"]
    /\ calls = {}
    /\ writes = 0
    /\ ncalls = 0
    /\ obj = [kind |-> "threads", p |-> ThreadPoint[1], q |-> ThreadPoint[2],
              stack |-> [t \in Threads |-> << >>],
              call |-> [t \in Threads |-> None],
              result |-> [t \in Threads |-> None]]

\* thread t calls f(p, q) on an instance (c, m)
ThreadCall(t, c, m) ==
    /\ obj.stack[t] = << >>
    /\ obj' = [obj EXCEPT !.stack[t] = <<Frame(c, m)>>, !.call[t] = Some(<<c, m>>),
                          !.result[t] = None]
    /\ last' = [op |-> "call", t |-> t]
    /\ UNCHANGED <<f_hash, ret, calls, writes, ncalls>>

\* if (p, q, c, m) not in LeavesAndClades.f_hash
ThreadCheck(t) ==
    /\ obj.stack[t] # << >>
    /\ Top(obj.stack[t]).pc = "check"
    /\ obj' = [obj EXCEPT !.stack[t] =
                  AfterCheck(f_hash, Pop(obj.stack[t]), Top(obj.stack[t]), obj.p, obj.q)]
    /\ last' = [op |-> "check", t |-> t]
    /\ UNCHANGED <<f_hash, ret, calls, writes, ncalls>>

\* LeavesAndClades.f_hash[(p, q, c, m)] = (f_result, array([...]))
ThreadStore(t) ==
    /\ obj.stack[t] # << >>
    /\ Top(obj.stack[t]).pc = "store"
    /\ \E fr \in {Top(obj.stack[t])} :
          /\ f_hash' = (Key(obj.p, obj.q, fr.c, fr.m) :> fr.val) @@ f_hash
          /\ obj' = [obj EXCEPT !.stack[t] = Append(Pop(@), [fr EXCEPT !.pc = "ret"])]
          /\ last' = [op |-> "store", t |-> t, c |-> fr.c, m |-> fr.m,
                      again |-> Key(obj.p, obj.q, fr.c, fr.m) \in DOMAIN f_hash]
    /\ UNCHANGED <<ret, calls, writes, ncalls>>

\* return LeavesAndClades.f_hash[(p, q, c, m)], to the caller's frame or
\* out of the thread's call
ThreadReturn(t) ==
    /\ obj.stack[t] # << >>
    /\ Top(obj.stack[t]).pc = "ret"
    /\ \E v \in {f_hash[Key(obj.p, obj.q, Top(obj.stack[t]).c, Top(obj.stack[t]).m)]} :
          obj' = IF Len(obj.stack[t]) = 1
                 THEN [obj EXCEPT !.stack[t] = << >>, !.result[t] = Some(v)]
                 ELSE [obj EXCEPT !.stack[t] =
                          Deliver(Pop(Pop(@)), Top(Pop(@)), obj.p, obj.q, v)]
    /\ last' = [op |-> "return", t |-> t]
    /\ UNCHANGED <<f_hash, ret, calls, writes, ncalls>>

NextThreads ==
    \E t \in Threads :
        \/ \E cm \in ThreadCalls : ThreadCall(t, cm[1], cm[2])
        \/ ThreadCheck(t)
        \/ ThreadStore(t)
        \/ ThreadReturn(t)

SpecThreads == InitThreads /\ [][NextThreads]_vars

\* the table after the same calls made one after the other by one thread
SequentialTable ==
    F(F(F(F(EvalState(NoTable), ThreadPoint[1], ThreadPoint[2], 1, 1),
          ThreadPoint[1], ThreadPoint[2], 2, 0),
        ThreadPoint[1], ThreadPoint[2], 0, 3),
      ThreadPoint[1], ThreadPoint[2], 2, 1).tab

\* C15: with two threads evaluating f concurrently on the shared memo table
\* without a lock, every value stored in the table is the value a
\* sequential evaluation stores for its key, and every call of f, the
\* recursive ones included, returns that value.
C15_ThreadsAgree ==
    /\ \A k \in DOMAIN f_hash : k \in DOMAIN SequentialTable /\ f_hash[k] = SequentialTable[k]
    /\ \A t \in Threads :
          /\ obj.result[t] # None =>
                Get(obj.result[t]) =
                   SequentialTable[Key(obj.p, obj.q, Get(obj.call[t])[1], Get(obj.call[t])[2])]
          /\ \A d \in 1..Len(obj.stack[t]) :
                obj.stack[t][d].pc = "n2" =>
                   obj.stack[t][d].n1 =
                      SequentialTable[Key(obj.p, obj.q,
                                          SplitCx(obj.stack[t][d].i, obj.stack[t][d].m),
                                          SplitMx(obj.stack[t][d].i, obj.stack[t][d].m))]

\* a thread stores the value of (1, 1) that the other thread has stored
\* since this one's test of the table, while the other is still in its call
C15_Witness ==
    /\ last.op = "store"
    /\ last.again
    /\ last.c = 1
    /\ last.m = 1
    /\ \A t \in Threads : obj.stack[t] # << >>

====
